---- MODULE Spec2Model ----
(***************************************************************************)
(* Perfect Shot: the slot orchestration of AppContent (App component).     *)
(*                                                                         *)
(* The state is the React state of AppContent plus the generation calls    *)
(* that are in flight.  Every event handler is one action; an asynchronous *)
(* handler is cut at its await: the part before the await is the click     *)
(* action, the continuation is CallComplete.  A handler that starts        *)
(* FileReaders is cut the same way: the event starts the reads, the        *)
(* callback of Promise.all runs when the last read has completed.          *)
(* Handlers read the state of the last committed render, which is the      *)
(* current state, because React flushes the updates of a discrete event    *)
(* before the next event.  Once a render has thrown the tree is unmounted  *)
(* and the setters called by a continuation do nothing.                    *)
(*                                                                         *)
(* Spec          the application as the user can drive it: a handler runs  *)
(*               only when the control that calls it is rendered.          *)
(* SpecHandlers  the handlers called directly, as the orchestrator's       *)
(*               operations, in any order (no control needs be rendered).  *)
(* SpecBatch     one batch for every value of the count slider.            *)
(* SpecRegenerate  the life of one collection: regenerates of its slots   *)
(*               while photos are removed and chosen again.                *)
(* SpecOverlap   batches that overlap, every call eventually settling.     *)
(* SpecService   one call of generateVibeBasedImage (geminiService), from  *)
(*               its arguments to its settlement.                          *)
(***************************************************************************)
EXTENDS Integers, Sequences, FiniteSets, Bags, TLC

VARIABLES
    currentUser,        \* useAuth().currentUser is non-null
    isApiKeySet,
    uploadedImages,     \* data URLs of the main photos
    inspirationImages,  \* data URLs of the vibe photos
    generatedImages,    \* the slot collection
    appState,
    generationCount,
    cropQueue,          \* sequence of [dataUrl, type]
    completedCrop,      \* <<>> when undefined, <<crop>> when a PixelCrop
    pastedImages,
    isPasteModalOpen,
    reads,              \* bag of FileReader batches that have not completed
    calls,              \* generateVibeBasedImage calls in flight
    nextCall,           \* identity of the next call to be launched
    collection,         \* history: the latest startGeneration / reset
    \* one call of generateVibeBasedImage (geminiService)
    mainImageDataUrls,  \* its first argument
    inspirationDataUrls,\* its second argument
    pc,                 \* where the call stands
    attempt,            \* the loop variable of callGeminiWithRetry
    allParts,           \* the payload sent upstream
    log,                \* history: attempts, failures, delays, responses
    outcome,            \* the url it resolved with or the message it rejected with
    \* the album download (handleDownloadAlbum, albumUtils)
    isDownloading,
    imageData,          \* the mapping built by the last handleDownloadAlbum
    albumPage,          \* the page of the last createAlbumPage that was
                        \* called or has drawn
    albumLoads          \* bag of the mappings whose images are loading

vars == <<currentUser, isApiKeySet, uploadedImages, inspirationImages,
          generatedImages, appState, generationCount, cropQueue,
          completedCrop, pastedImages, isPasteModalOpen, calls, nextCall,
          collection, mainImageDataUrls, inspirationDataUrls, pc, attempt,
          allParts, log, outcome, isDownloading, imageData, albumPage,
          albumLoads, reads>>

appVars == <<currentUser, isApiKeySet, uploadedImages, inspirationImages,
             generatedImages, appState, generationCount, cropQueue,
             completedCrop, pastedImages, isPasteModalOpen, calls, nextCall,
             collection, isDownloading, imageData, albumPage, albumLoads,
             reads>>

albumVars == <<isDownloading, imageData, albumPage, albumLoads>>

serviceVars == <<mainImageDataUrls, inspirationDataUrls, pc, attempt,
                 allParts, log, outcome>>

authVars    == <<currentUser, isApiKeySet>>
photoVars   == <<uploadedImages, inspirationImages>>
cropVars    == <<cropQueue, completedCrop>>
pasteVars   == <<pastedImages, isPasteModalOpen>>

-----------------------------------------------------------------------------
(* Program constants *)

MAX_MAIN_IMAGES == 10
MAX_INSPIRATION_IMAGES == 5
InitialGenerationCount == 4
SliderMin == 1
SliderMax == 8

(* Bounds of the exploration *)

MaxCalls == 3      \* calls launched in one behaviour of Spec / SpecHandlers
MaxCount == 2      \* largest slider value chosen in Spec / SpecHandlers
MaxPhotos == 1     \* a list this long gets no more photos queued for it
MaxQueue == 1      \* most files in one paste or upload, longest queue they join
MaxReads == 1      \* most batches of FileReaders started and not completed
MaxOverlapCalls == 4   \* calls launched in one behaviour of SpecOverlap
MaxOverlapCount == 3   \* largest slider value chosen in SpecOverlap

Types == {"main", "inspiration"}

-----------------------------------------------------------------------------
(* Data URLs.  A data URL is a sequence of fragments,                      *)
(* <<"data:", "image/", subtype, ";base64,", payload>> when well formed;   *)
(* the subtype and the payload are sequences of characters.                *)

\* \w : a letter, a digit or an underscore
WordChars ==
    {"a", "b", "c", "d", "e", "f", "g", "h", "i", "j", "k", "l", "m",
     "n", "o", "p", "q", "r", "s", "t", "u", "v", "w", "x", "y", "z",
     "A", "B", "C", "D", "E", "F", "G", "H", "I", "J", "K", "L", "M",
     "N", "O", "P", "Q", "R", "S", "T", "U", "V", "W", "X", "Y", "Z",
     "0", "1", "2", "3", "4", "5", "6", "7", "8", "9", "_"}

\* the characters U+2028 (line separator) and U+2029 (paragraph separator),
\* each written by its code point
LineSeparator == "U+2028"
ParagraphSeparator == "U+2029"

\* the characters . does not match (the regular expression has no s flag):
\* line feed, carriage return, line separator, paragraph separator
LineTerminators == {"\n", "\r", LineSeparator, ParagraphSeparator}

\* \w+ : a non-empty run of word characters
IsWord(fragment) ==
    /\ Len(fragment) > 0
    /\ \A k \in 1 .. Len(fragment) : fragment[k] \in WordChars

\* (.*)$ : any run of characters up to the end of the input, none of them a
\* line terminator
IsRestOfLine(fragment) ==
    \A k \in 1 .. Len(fragment) : fragment[k] \notin LineTerminators

\* mutant of DataUrlMatch: any media type passes
DataUrlMatchAnyType(dataUrl) ==
    /\ Len(dataUrl) = 5
    /\ dataUrl[1] = "data:"
    /\ dataUrl[4] = ";base64,"

\* dataUrl.match(/^data:(image\/\w+);base64,(.*)$/)
DataUrlMatch(dataUrl) ==
    /\ Len(dataUrl) = 5
    /\ dataUrl[1] = "data:"
    /\ dataUrl[2] = "image/"
    /\ IsWord(dataUrl[3])
    /\ dataUrl[4] = ";base64,"
    /\ IsRestOfLine(dataUrl[5])

Png == <<"p", "n", "g">>
Jpeg == <<"j", "p", "e", "g">>

\* FileReader.readAsDataURL of a pasted or chosen image file
RawDataUrl == <<"data:", "image/", Png, ";base64,", <<"r", "a", "w">>>>
\* canvas.toDataURL('image/jpeg', 0.9) of a canvas that holds pixels
CroppedDataUrl == <<"data:", "image/", Jpeg, ";base64,", <<"c", "r", "o", "p">>>>
\* canvas.toDataURL of a canvas of width 0 or height 0, or of one too large
\* for the browser to allocate
EmptyCanvasUrl == <<"data:", ",">>

-----------------------------------------------------------------------------
(* GeneratedImage values.  result is the url of a done slot or the error   *)
(* message of an error slot; both are produced by exactly one call, whose  *)
(* identity stands for them.                                               *)

Pending == [status |-> "pending", result |-> 0]
Done(id) == [status |-> "done", result |-> id]
Error(id) == [status |-> "error", result |-> id]
Hole == [status |-> "hole", result |-> 0]            \* index never assigned
Undefined == [status |-> "undefined", result |-> 0]  \* element is undefined

Min(a, b) == IF a < b THEN a ELSE b

Indices(images) == 0 .. (Len(images) - 1)

\* images[index] as JavaScript reads it
Slot(images, index) ==
    IF index \in Indices(images) /\ images[index + 1] # Hole
    THEN images[index + 1]
    ELSE Undefined

\* [...prev]: the holes of a sparse array become undefined elements
Spread(prev) ==
    [k \in 1 .. Len(prev) |-> IF prev[k] = Hole THEN Undefined ELSE prev[k]]

\* const newImages = [...prev]; newImages[index] = value; return newImages
WriteSlot(prev, index, value) ==
    IF index < Len(prev)
    THEN [Spread(prev) EXCEPT ![index + 1] = value]
    ELSE Spread(prev) \o [k \in 1 .. (index - Len(prev)) |-> Hole] \o <<value>>

\* mutant of InitialImages: one entry short
InitialImagesShort(count) == [k \in 1 .. (count - 1) |-> Pending]

\* Array(generationCount).fill({ status: 'pending' })
InitialImages(count) == [k \in 1 .. count |-> Pending]

\* q.slice(1)
Slice1(q) == IF Len(q) = 0 THEN <<>> ELSE Tail(q)

\* prev.filter((_, i) => i !== index)
Filter(seq, index) ==
    [k \in 1 .. (Len(seq) - 1) |-> IF k < index + 1 THEN seq[k] ELSE seq[k + 1]]

\* handleDownloadAlbum has not run
AlbumNone ==
    /\ isDownloading = FALSE
    /\ imageData = <<>>
    /\ albumPage = [called |-> FALSE, cells |-> <<>>]
    /\ albumLoads = EmptyBag

\* no call of generateVibeBasedImage is followed step by step
ServiceIdle ==
    /\ mainImageDataUrls = <<>>
    /\ inspirationDataUrls = <<>>
    /\ pc = "idle"
    /\ attempt = 0
    /\ allParts = <<>>
    /\ log = <<>>
    /\ outcome = <<>>

-----------------------------------------------------------------------------
\* the state after the first render and its effect, which sets isApiKeySet
\* when sessionStorage holds a key
Init ==
    /\ currentUser = FALSE
    /\ isApiKeySet \in BOOLEAN
    /\ uploadedImages = <<>>
    /\ inspirationImages = <<>>
    /\ generatedImages = <<>>
    /\ appState = "idle"
    /\ generationCount = InitialGenerationCount
    /\ cropQueue = <<>>
    /\ completedCrop = <<>>
    /\ pastedImages = <<>>
    /\ isPasteModalOpen = FALSE
    /\ reads = EmptyBag
    /\ calls = {}
    /\ nextCall = 1
    /\ collection = [phase |-> "none", afterReset |-> FALSE, first |-> 0, count |-> 0]
    /\ AlbumNone
    /\ ServiceIdle


-----------------------------------------------------------------------------
(* What is rendered (the JSX of AppContent and of PhotoCard) *)

\* mutant of MainRendered: the login prompt is missing
MainRenderedNoLogin == isApiKeySet

\* the main tree, below the login prompt and the API key prompt
MainRendered == currentUser /\ isApiKeySet

LandingRendered == MainRendered /\ appState = "idle"
UploadViewRendered == MainRendered /\ appState = "photos-uploaded"
ResultsRendered == MainRendered /\ appState \in {"generating", "results-shown"}
PasteModalRendered == MainRendered /\ isPasteModalOpen /\ Len(pastedImages) > 0
CropModalRendered == MainRendered /\ Len(cropQueue) > 0

isGenerateButtonDisabled ==
    \/ Len(uploadedImages) = 0
    \/ Len(inspirationImages) = 0
    \/ appState = "generating"

\* PhotoCard draws the regenerate button only inside status === 'done' && imageUrl
RegenerateOffered(index) ==
    /\ ResultsRendered
    /\ index \in Indices(generatedImages)
    /\ generatedImages[index + 1].status = "done"

\* generatedImages.map(image => ... image.status ...) throws on an undefined
\* element (holes are skipped); no error boundary: the tree is unmounted
RenderThrows ==
    /\ ResultsRendered
    /\ \E k \in 1 .. Len(generatedImages) : generatedImages[k] = Undefined

-----------------------------------------------------------------------------
(* Handlers of AppContent *)

SignIn ==
    /\ ~currentUser
    /\ currentUser' = TRUE
    /\ UNCHANGED <<isApiKeySet, photoVars, generatedImages, appState,
                   generationCount, cropVars, pasteVars, calls, nextCall,
                   collection,
                   serviceVars, albumVars, reads>>

\* handleLogout of UserProfile: await logout() signs the user out; when it
\* rejects, the catch logs the error and the user stays signed in
handleLogout(ok) ==
    /\ currentUser
    /\ currentUser' = IF ok THEN FALSE ELSE currentUser
    /\ UNCHANGED <<isApiKeySet, photoVars, generatedImages, appState,
                   generationCount, cropVars, pasteVars, calls, nextCall,
                   collection,
                   serviceVars, albumVars, reads>>

\* initializeGoogleGenAI(key) throws on an empty key; the GoogleGenAI
\* constructor or sessionStorage.setItem may throw as well (stored is
\* FALSE): the catch alerts and isApiKeySet stays as it is
handleApiKeySubmit(key, stored) ==
    /\ isApiKeySet' = IF key # "" /\ stored THEN TRUE ELSE isApiKeySet
    /\ UNCHANGED <<currentUser, photoVars, generatedImages, appState,
                   generationCount, cropVars, pasteVars, calls, nextCall,
                   collection,
                   serviceVars, albumVars, reads>>

\* onGetStarted={() => setAppState('photos-uploaded')}
onGetStarted ==
    /\ appState' = "photos-uploaded"
    /\ UNCHANGED <<authVars, photoVars, generatedImages, generationCount,
                   cropVars, pasteVars, calls, nextCall, collection,
                   serviceVars, albumVars, reads>>

\* a batch of FileReaders started by one event: n files are being read,
\* for the paste modal or for the crop queue of a photo list
PasteReading(n) == [kind |-> "paste", type |-> "clipboard", n |-> n]
UploadReading(type, n) == [kind |-> "upload", type |-> type, n |-> n]

\* document.activeElement?.tagName at a paste event
FocusTags == {"BODY", "TEXTAREA", "INPUT"}

\* the paste event on window, with n image files on the clipboard, while
\* an element with tag focus has the focus: the FileReaders are started,
\* no state is set yet
handlePaste(n, focus) ==
    /\ isApiKeySet
    /\ focus \notin {"TEXTAREA", "INPUT"}
    /\ n > 0
    /\ reads' = reads (+) SetToBag({PasteReading(n)})
    /\ UNCHANGED <<authVars, photoVars, generatedImages, appState,
                   generationCount, cropVars, pasteVars, calls, nextCall,
                   collection, serviceVars, albumVars>>

\* Promise.all(filePromises).then(dataUrls => ...) / .catch(...): the reads
\* of one paste have completed (ok) or one of them has failed
pasteFilesRead(read, ok) ==
    /\ BagIn(read, reads)
    /\ read.kind = "paste"
    /\ reads' = reads (-) SetToBag({read})
    /\ IF ok /\ ~RenderThrows
       THEN /\ pastedImages' = [k \in 1 .. read.n |-> RawDataUrl]
            /\ isPasteModalOpen' = TRUE
       ELSE UNCHANGED pasteVars
    /\ UNCHANGED <<authVars, photoVars, generatedImages, appState,
                   generationCount, cropVars, calls, nextCall, collection,
                   serviceVars, albumVars>>

MaxImagesOf(type) ==
    IF type = "main" THEN MAX_MAIN_IMAGES ELSE MAX_INSPIRATION_IMAGES

CurrentCount(type) ==
    IF type = "main" THEN Len(uploadedImages) ELSE Len(inspirationImages)

handleAddPastedImages(type) ==
    LET availableSlots == MaxImagesOf(type) - CurrentCount(type)
        imagesToAdd == SubSeq(pastedImages, 1, Min(Len(pastedImages), availableSlots))
        newQueueItems == [k \in 1 .. Len(imagesToAdd) |->
                              [dataUrl |-> imagesToAdd[k], type |-> type]]
    IN  /\ availableSlots > 0
        /\ cropQueue' = cropQueue \o newQueueItems
        /\ isPasteModalOpen' = FALSE
        /\ pastedImages' = <<>>
        /\ UNCHANGED <<authVars, photoVars, generatedImages, appState,
                       generationCount, completedCrop, calls, nextCall,
                       collection,
                   serviceVars, albumVars, reads>>

handleCancelPaste ==
    /\ isPasteModalOpen' = FALSE
    /\ pastedImages' = <<>>
    /\ UNCHANGED <<authVars, photoVars, generatedImages, appState,
                   generationCount, cropVars, calls, nextCall, collection,
                   serviceVars, albumVars, reads>>

\* the length of files.slice(0, end) for n files: a negative end counts
\* from the end of the array
SliceLength(n, end) ==
    IF end >= 0 THEN Min(n, end)
    ELSE IF n + end > 0 THEN n + end ELSE 0

\* the change event of a file input whose files list holds n files:
\* files.slice(0, maxImages - currentCount) are handed to FileReaders,
\* nothing is queued yet
handleImageUpload(type, n) ==
    LET kept == SliceLength(n, MaxImagesOf(type) - CurrentCount(type))
    IN  /\ n >= 0
        /\ reads' = reads (+) SetToBag({UploadReading(type, kept)})
        /\ UNCHANGED <<authVars, photoVars, generatedImages, appState,
                       generationCount, cropVars, pasteVars, calls,
                       nextCall, collection, serviceVars, albumVars>>

\* Promise.all(newQueueItemsPromises).then(items => setCropQueue(prev =>
\* [...prev, ...items])) / .catch(...): the reads of one upload have
\* completed (ok) or one of them has failed
uploadFilesRead(read, ok) ==
    /\ BagIn(read, reads)
    /\ read.kind = "upload"
    /\ reads' = reads (-) SetToBag({read})
    /\ IF ok /\ ~RenderThrows
       THEN cropQueue' = cropQueue \o
                [k \in 1 .. read.n |-> [dataUrl |-> RawDataUrl, type |-> read.type]]
       ELSE UNCHANGED cropQueue
    /\ UNCHANGED <<authVars, photoVars, generatedImages, appState,
                   generationCount, completedCrop, pasteVars, calls,
                   nextCall, collection, serviceVars, albumVars>>

removeMainImage(index) ==
    /\ index \in Indices(uploadedImages)
    /\ uploadedImages' = Filter(uploadedImages, index)
    /\ UNCHANGED <<authVars, inspirationImages, generatedImages, appState,
                   generationCount, cropVars, pasteVars, calls, nextCall,
                   collection,
                   serviceVars, albumVars, reads>>

removeInspirationImage(index) ==
    /\ index \in Indices(inspirationImages)
    /\ inspirationImages' = Filter(inspirationImages, index)
    /\ UNCHANGED <<authVars, uploadedImages, generatedImages, appState,
                   generationCount, cropVars, pasteVars, calls, nextCall,
                   collection,
                   serviceVars, albumVars, reads>>

\* a PixelCrop: width and height in tenths of a pixel of the canvas
\* ((image.naturalWidth / image.width) * devicePixelRatio is taken as 1)
PixelCrop(width, height) == [width |-> width, height |-> height]

\* Math.floor of a number of tenths
Floor(tenths) == tenths \div 10

\* canvas.width = Math.floor(crop.width * scaleX * pixelRatio), and the
\* same for the height
canvasPreview(crop) ==
    [width |-> Floor(crop.width), height |-> Floor(crop.height)]

\* canvas.toDataURL('image/jpeg', 0.9): a canvas with no pixel, or one the
\* browser could not allocate, gives 'data:,'
toDataURL(canvas, allocated) ==
    IF canvas.width = 0 \/ canvas.height = 0 \/ ~allocated
    THEN EmptyCanvasUrl
    ELSE CroppedDataUrl

\* ReactCrop onComplete={(c) => setCompletedCrop(c)}
onCropComplete(c) ==
    /\ completedCrop' = <<c>>
    /\ UNCHANGED <<authVars, photoVars, generatedImages, appState,
                   generationCount, cropQueue, pasteVars, calls, nextCall,
                   collection,
                   serviceVars, albumVars, reads>>

\* allocated: the browser could allocate the canvas of the crop
handleCropConfirm(allocated) ==
    /\ completedCrop # <<>>
    /\ Len(cropQueue) > 0
    /\ LET croppedDataUrl ==
               toDataURL(canvasPreview(completedCrop[1]), allocated)
       IN  IF Head(cropQueue).type = "main"
           THEN /\ uploadedImages' = Append(uploadedImages, croppedDataUrl)
                /\ UNCHANGED inspirationImages
           ELSE /\ inspirationImages' = Append(inspirationImages, croppedDataUrl)
                /\ UNCHANGED uploadedImages
    /\ appState' = "photos-uploaded"
    /\ cropQueue' = Slice1(cropQueue)
    /\ completedCrop' = <<>>
    /\ UNCHANGED <<authVars, generatedImages, generationCount, pasteVars,
                   calls, nextCall, collection,
                   serviceVars, albumVars, reads>>

handleCropCancel ==
    /\ cropQueue' = Slice1(cropQueue)
    /\ completedCrop' = <<>>
    /\ UNCHANGED <<authVars, photoVars, generatedImages, appState,
                   generationCount, pasteVars, calls, nextCall, collection,
                   serviceVars, albumVars, reads>>

setGenerationCount(n) ==
    /\ n \in SliderMin .. SliderMax
    /\ n # generationCount
    /\ generationCount' = n
    /\ UNCHANGED <<authVars, photoVars, generatedImages, appState, cropVars,
                   pasteVars, calls, nextCall, collection,
                   serviceVars, albumVars, reads>>

-----------------------------------------------------------------------------
(* The slot orchestrator: handleGenerateClick, handleRegenerateSlot,       *)
(* handleReset and the continuations of the calls they launch.             *)
(*                                                                         *)
(* A call in flight is [id, batch, index, accepted]: index is the slot its *)
(* continuation writes, batch is the id of the first call of the           *)
(* Promise.all it belongs to, 0 for a call of handleRegenerateSlot, and    *)
(* accepted tells whether dataUrlToGeminiPart takes every photo the call   *)
(* was given.                                                              *)

\* mainImageDataUrls.map(dataUrlToGeminiPart) and
\* inspirationImageDataUrls.map(dataUrlToGeminiPart) do not throw
PhotosAccepted ==
    /\ \A k \in 1 .. Len(uploadedImages) : DataUrlMatch(uploadedImages[k])
    /\ \A k \in 1 .. Len(inspirationImages) : DataUrlMatch(inspirationImages[k])

\* generateVibeBasedImage(uploadedImages, inspirationImages, userPrompt)
NewCall(id, batch, index) ==
    [id |-> id, batch |-> batch, index |-> index, accepted |-> PhotosAccepted]

\* mutant of GenerationPromises: only the first call is launched at once
GenerationPromisesFirstOnly(first, count) == {NewCall(first, first, 0)}

\* Array(generationCount).fill(null).map((_, index) => generateVibeBasedImage(...))
GenerationPromises(first, count) ==
    {NewCall(first + index, first, index) : index \in 0 .. (count - 1)}

handleGenerateClick ==
    /\ ~(Len(uploadedImages) = 0 \/ Len(inspirationImages) = 0)
    /\ appState' = "generating"
    /\ generatedImages' = InitialImages(generationCount)
    /\ calls' = calls \cup GenerationPromises(nextCall, generationCount)
    /\ nextCall' = nextCall + generationCount
    /\ collection' = [phase |-> "active", afterReset |-> collection.afterReset,
                      first |-> nextCall, count |-> generationCount]
    /\ UNCHANGED <<authVars, photoVars, generationCount, cropVars, pasteVars,
                   serviceVars, albumVars, reads>>

\* mutant of RegenerateReturnsEarly: the pending check is missing
RegenerateReturnsEarlyNoPendingCheck(index) ==
    Len(uploadedImages) = 0 \/ Len(inspirationImages) = 0

\* mutant of RegenerateReturnsEarly: the check of the photo lists is missing
RegenerateReturnsEarlyNoInputCheck(index) ==
    Slot(generatedImages, index).status = "pending"

\* the two early returns of handleRegenerateSlot
RegenerateReturnsEarly(index) ==
    \/ Len(uploadedImages) = 0 \/ Len(inspirationImages) = 0
    \/ Slot(generatedImages, index).status = "pending"

\* mutant of RegenerateImages: every slot is set back to pending
RegenerateImagesAll(prev, index) == InitialImages(Len(prev))

\* setGeneratedImages(prev => { ...; newImages[index] = { status: 'pending' }; ... })
RegenerateImages(prev, index) == WriteSlot(prev, index, Pending)

handleRegenerateSlot(index) ==
    /\ ~RegenerateReturnsEarly(index)
    /\ generatedImages' = RegenerateImages(generatedImages, index)
    /\ calls' = calls \cup {NewCall(nextCall, 0, index)}
    /\ nextCall' = nextCall + 1
    /\ UNCHANGED <<authVars, photoVars, appState, generationCount, cropVars,
                   pasteVars, collection,
                   serviceVars, albumVars, reads>>

\* the value a settled call writes: .then(resultUrl => ...) / .catch(err => ...)
Result(call, ok) == IF ok THEN Done(call.id) ELSE Error(call.id)

\* each of generationPromises fulfils, with a done slot from .then or with an
\* error slot from .catch
Fulfils(ok) == TRUE

\* Promise.all(generationPromises) resolves with the last call of its batch
BatchSettles(call) ==
    /\ call.batch # 0
    /\ \A other \in calls \ {call} : other.batch # call.batch

\* setGeneratedImages(prev => { ...; newImages[i] = result; ... })
CompleteImages(prev, call, ok) == WriteSlot(prev, call.index, Result(call, ok))

\* A call settles.  Its continuation writes the slot; when it is the last
\* call of its batch the continuation of await Promise.all runs in the same
\* task (no event comes between two microtasks) and sets 'results-shown'.
\* On a tree that a thrown render has unmounted the continuations run and
\* their setters do nothing.  A call that was given a photo
\* dataUrlToGeminiPart does not take can only reject.
CallComplete(call, ok) ==
    /\ call \in calls
    /\ ok => call.accepted
    /\ calls' = calls \ {call}
    /\ IF RenderThrows
       THEN UNCHANGED <<generatedImages, appState>>
       ELSE /\ generatedImages' = CompleteImages(generatedImages, call, ok)
            /\ appState' = IF BatchSettles(call) /\ Fulfils(ok)
                           THEN "results-shown" ELSE appState
    /\ UNCHANGED <<authVars, photoVars, generationCount, cropVars, pasteVars,
                   nextCall, collection,
                   serviceVars, albumVars, reads>>

handleReset ==
    /\ uploadedImages' = <<>>
    /\ inspirationImages' = <<>>
    /\ generatedImages' = <<>>
    /\ appState' = "idle"
    /\ collection' = [phase |-> "discarded", afterReset |-> TRUE,
                      first |-> 0, count |-> 0]
    /\ UNCHANGED <<authVars, generationCount, cropVars, pasteVars, calls,
                   nextCall,
                   serviceVars, albumVars, reads>>

-----------------------------------------------------------------------------
(* The album download: handleDownloadAlbum and createAlbumPage (albumUtils) *)

GridCols == 2
GridRows == 3

\* mutant of IsDoneWithUrl: every settled slot is taken
IsSettled(image) == image.status \in {"done", "error"}

\* image.status === 'done' && image.url (the url of a done slot is the
\* non-empty data URL generateVibeBasedImage resolved with)
IsDoneWithUrl(image) == image.status = "done" /\ image.result # 0

\* generatedImages.forEach((image, index) => { if (...) imageData[`Result
\* ${index + 1}`] = image.url }): the entries in key order, from index on
RECURSIVE ImageDataFrom(_, _)
ImageDataFrom(images, index) ==
    IF index >= Len(images) THEN <<>>
    ELSE (IF images[index + 1] # Hole /\ IsDoneWithUrl(images[index + 1])
          THEN <<[style |-> <<"Result ", index + 1>>,
                  url |-> images[index + 1].result]>>
          ELSE <<>>)
         \o ImageDataFrom(images, index + 1)

\* imagesWithStyles.forEach(({ style, img }, index) => ...): the cell of
\* the grid each image is drawn in, once every image has loaded
createAlbumPage(data) ==
    [called |-> TRUE,
     cells |-> [k \in 1 .. Len(data) |->
                   [style |-> data[k].style,
                    img |-> data[k].url,
                    row |-> (k - 1) \div GridCols,
                    col |-> (k - 1) % GridCols]]]

\* the page of a createAlbumPage that has been called and has not drawn
\* an image: the images are loading
AlbumPageCalled == [called |-> TRUE, cells |-> <<>>]

\* setIsDownloading(value) of handleDownloadAlbum; on a tree that a thrown
\* render has unmounted the setter does nothing
SetIsDownloading(value) ==
    isDownloading' = IF RenderThrows THEN isDownloading ELSE value

\* The click, up to await createAlbumPage(imageData).  forEach reads
\* image.status of an undefined element: a TypeError, caught by the catch
\* of the handler, which alerts; with no done slot the handler alerts and
\* returns; in both cases finally runs in the same task.  Otherwise
\* createAlbumPage is called and starts loading the images.
handleDownloadAlbum ==
    /\ IF \E k \in 1 .. Len(generatedImages) : generatedImages[k] = Undefined
       THEN /\ SetIsDownloading(FALSE)
            /\ UNCHANGED <<imageData, albumPage, albumLoads>>
       ELSE /\ imageData' = ImageDataFrom(generatedImages, 0)
            /\ IF Len(imageData') = 0
               THEN /\ SetIsDownloading(FALSE)
                    /\ UNCHANGED <<albumPage, albumLoads>>
               ELSE /\ SetIsDownloading(TRUE)
                    /\ albumPage' = AlbumPageCalled
                    /\ albumLoads' = albumLoads (+) SetToBag({imageData'})
    /\ UNCHANGED <<authVars, photoVars, generatedImages, appState,
                   generationCount, cropVars, pasteVars, calls, nextCall,
                   collection, serviceVars, reads>>

\* await Promise.all(Object.values(imageData).map(url => loadImage(url)))
\* of createAlbumPage settles for the mapping data: when every image has
\* loaded (ok) the page is drawn from data and downloaded, when one has
\* failed createAlbumPage rejects and the handler alerts; finally
\* setIsDownloading(false)
albumImagesLoad(data, ok) ==
    /\ BagIn(data, albumLoads)
    /\ albumLoads' = albumLoads (-) SetToBag({data})
    /\ albumPage' = IF ok THEN createAlbumPage(data) ELSE albumPage
    /\ SetIsDownloading(FALSE)
    /\ UNCHANGED <<authVars, photoVars, generatedImages, appState,
                   generationCount, cropVars, pasteVars, calls, nextCall,
                   collection, serviceVars, imageData, reads>>

-----------------------------------------------------------------------------
(* geminiService: one call of generateVibeBasedImage, cut at its awaits.   *)
(*                                                                         *)
(* A string is a sequence of fragments, s.includes(f) is "f is one of the  *)
(* fragments", and a template literal is a concatenation.  A data URL is   *)
(* <<"data:", "image/", subtype, ";base64,", payload>> when well formed.   *)
(* A function returns Returned(value) or throws Thrown(message).           *)

maxRetries == 3
initialDelay == 1000

MaxAssets == 2     \* most main photos handed to one call of SpecService
MaxStyles == 1     \* most vibe photos handed to one call of SpecService
MaxBacklog == 2    \* longest crop queue of SpecPhotos

Includes(message, fragment) ==
    \E k \in 1 .. Len(message) : message[k] = fragment

Returned(value) == [thrown |-> FALSE, value |-> value]
Thrown(message) == [thrown |-> TRUE, value |-> message]

InvalidDataUrlMessage ==
    <<"Invalid image data URL format. Expected 'data:image/...;base64,...'">>

\* mutant of dataUrlToGeminiPart: the media type is always image/jpeg
dataUrlToGeminiPartJpeg(dataUrl) ==
    IF DataUrlMatch(dataUrl)
    THEN Returned([inlineData |->
                       [mimeType |-> <<"image/", Jpeg>>, data |-> dataUrl[5]]])
    ELSE Thrown(InvalidDataUrlMessage)

dataUrlToGeminiPart(dataUrl) ==
    IF DataUrlMatch(dataUrl)
    THEN Returned([inlineData |->
                       [mimeType |-> SubSeq(dataUrl, 2, 3), data |-> dataUrl[5]]])
    ELSE Thrown(InvalidDataUrlMessage)

TextPart(text) == [text |-> text]
ImagePart(mimeType, data) == [inlineData |-> [mimeType |-> mimeType, data |-> data]]
HasInlineData(part) == "inlineData" \in DOMAIN part

\* response.text: the text parts concatenated, undefined (here <<>>) if none
RECURSIVE ResponseText(_)
ResponseText(parts) ==
    IF parts = <<>> THEN <<>>
    ELSE (IF HasInlineData(Head(parts)) THEN <<>> ELSE Head(parts).text)
         \o ResponseText(Tail(parts))

\* mutant of FindImagePart: the last part that carries inline data
FindLastImagePart(parts) ==
    IF \E k \in 1 .. Len(parts) : HasInlineData(parts[k])
    THEN CHOOSE k \in 1 .. Len(parts) :
             /\ HasInlineData(parts[k])
             /\ \A j \in (k + 1) .. Len(parts) : ~HasInlineData(parts[j])
    ELSE 0

\* parts?.find(part => part.inlineData): the position of the first part that
\* carries inline data, 0 when there is none
FindImagePart(parts) ==
    IF \E k \in 1 .. Len(parts) : HasInlineData(parts[k])
    THEN CHOOSE k \in 1 .. Len(parts) :
             /\ HasInlineData(parts[k])
             /\ \A j \in 1 .. (k - 1) : ~HasInlineData(parts[j])
    ELSE 0

TextInsteadOfImage == "The AI model responded with text"

\* mutant of processGeminiResponse: the missing image part is not noticed
processGeminiResponseUnchecked(response) ==
    Returned(<<"data:", "undefined", ";base64,", "undefined">>)

processGeminiResponse(response) ==
    LET found == FindImagePart(response)
        textResponse == ResponseText(response)
    IN  IF found # 0 /\ HasInlineData(response[found])
        THEN Returned(<<"data:">> \o response[found].inlineData.mimeType
                          \o <<";base64,", response[found].inlineData.data>>)
        ELSE Thrown(<<TextInsteadOfImage, " instead of an image: ", "\"">>
                    \o (IF textResponse = <<>>
                        THEN <<"No text response received.">>
                        ELSE textResponse)
                    \o <<"\"">>)

\* mutant of isRetriableError: every failure is retried
isRetriableErrorAlways(errorMessage) == TRUE

isRetriableError(errorMessage) ==
    \/ Includes(errorMessage, "\"code\":500")
    \/ Includes(errorMessage, "INTERNAL")
    \/ Includes(errorMessage, "503")

\* mutant of WillRetry: the attempts left are not looked at
WillRetryIgnoringAttempts(errorMessage, n) == isRetriableError(errorMessage)

\* isRetriableError && attempt < maxRetries
WillRetry(errorMessage, n) == isRetriableError(errorMessage) /\ n < maxRetries

RECURSIVE Pow2(_)
Pow2(n) == IF n <= 0 THEN 1 ELSE 2 * Pow2(n - 1)

\* mutant of Delay: a constant delay
DelayConstant(n) == initialDelay

\* initialDelay * Math.pow(2, attempt - 1)
Delay(n) == initialDelay * Pow2(n - 1)

\* mutant of Rethrown: the error of the first failed attempt
RethrownFirst(failures) == failures[1]

\* throw error: the error caught in this iteration, the last failure so far
Rethrown(failures) == failures[Len(failures)]

\* the catch of generateVibeBasedImage: the message of the Error it throws
CatchAndWrap(errorMessage) ==
    IF Includes(errorMessage, TextInsteadOfImage)
    THEN <<"The model couldn't generate an image with this vibe. It might be too complex.">>
    ELSE <<"The AI model failed to generate an image. Details: ">> \o errorMessage

Entry(kind, n, message) == [kind |-> kind, n |-> n, message |-> message]

Failures == SelectSeq(log, LAMBDA e : e.kind = "failure")
FailureMessages == [k \in 1 .. Len(Failures) |-> Failures[k].message]
Attempts == Len(SelectSeq(log, LAMBDA e : e.kind = "attempt"))
Delays ==
    LET delays == SelectSeq(log, LAMBDA e : e.kind = "delay")
    IN  [k \in 1 .. Len(delays) |-> delays[k].n]

EncodeAll(dataUrls) ==
    [k \in 1 .. Len(dataUrls) |-> dataUrlToGeminiPart(dataUrls[k])]

\* Array.prototype.map stops at the first element whose callback throws
FirstThrown(results) ==
    results[CHOOSE k \in 1 .. Len(results) :
                /\ results[k].thrown
                /\ \A j \in 1 .. (k - 1) : ~results[j].thrown]

Values(results) == [k \in 1 .. Len(results) |-> results[k].value]

\* mutant of AllPartsOf: the text part comes first
AllPartsTextFirst(mainImageParts, inspirationImageParts, textPart) ==
    <<textPart>> \o mainImageParts \o inspirationImageParts

\* [...mainImageParts, ...inspirationImageParts, textPart]
AllPartsOf(mainImageParts, inspirationImageParts, textPart) ==
    mainImageParts \o inspirationImageParts \o <<textPart>>

\* generateVibeBasedImage up to its await: the assets are encoded and the
\* first attempt of callGeminiWithRetry is issued, or an encoding throws
GenerateStart ==
    LET mainImageParts == EncodeAll(mainImageDataUrls)
        inspirationImageParts == EncodeAll(inspirationDataUrls)
        encoded == mainImageParts \o inspirationImageParts
    IN  /\ pc = "start"
        /\ IF \E k \in 1 .. Len(encoded) : encoded[k].thrown
           THEN /\ pc' = "rejected"
                /\ outcome' = CatchAndWrap(FirstThrown(encoded).value)
                /\ UNCHANGED <<attempt, allParts, log>>
           ELSE /\ pc' = "calling"
                /\ allParts' = AllPartsOf(Values(mainImageParts),
                                        Values(inspirationImageParts),
                                        TextPart(<<"textPrompt">>))
                /\ attempt' = 1
                /\ log' = <<Entry("attempt", 1, <<>>)>>
                /\ UNCHANGED outcome
        /\ UNCHANGED <<mainImageDataUrls, inspirationDataUrls, appVars>>

\* ai.models.generateContent rejects: the catch of callGeminiWithRetry
UpstreamFails(errorMessage) ==
    LET failed == Append(log, Entry("failure", attempt, errorMessage))
    IN  /\ pc = "calling"
        /\ IF WillRetry(errorMessage, attempt)
           THEN /\ pc' = "delaying"
                /\ log' = Append(failed, Entry("delay", Delay(attempt), <<>>))
                /\ UNCHANGED outcome
           ELSE /\ pc' = "rejected"
                /\ log' = failed
                /\ outcome' = CatchAndWrap(
                       Rethrown(FailureMessages \o <<errorMessage>>))
        /\ UNCHANGED <<mainImageDataUrls, inspirationDataUrls, attempt,
                       allParts, appVars>>

\* the timer of the backoff fires: continue, attempt++, the loop test
DelayElapses ==
    /\ pc = "delaying"
    /\ attempt' = attempt + 1
    /\ IF attempt + 1 <= maxRetries
       THEN /\ pc' = "calling"
            /\ log' = Append(log, Entry("attempt", attempt + 1, <<>>))
            /\ UNCHANGED outcome
       ELSE /\ pc' = "rejected"
            /\ outcome' = CatchAndWrap(<<"Gemini API call failed after all retries.">>)
            /\ UNCHANGED log
    /\ UNCHANGED <<mainImageDataUrls, inspirationDataUrls, allParts, appVars>>

\* ai.models.generateContent resolves: return processGeminiResponse(response)
UpstreamReturns(response) ==
    LET result == processGeminiResponse(response)
    IN  /\ pc = "calling"
        /\ log' = Append(log, Entry("response", attempt, ResponseText(response)))
        /\ IF result.thrown
           THEN /\ pc' = "rejected"
                /\ outcome' = CatchAndWrap(result.value)
           ELSE /\ pc' = "resolved"
                /\ outcome' = result.value
        /\ UNCHANGED <<mainImageDataUrls, inspirationDataUrls, attempt,
                       allParts, appVars>>


-----------------------------------------------------------------------------
(* Spec: the events the rendered application accepts.  Once a render has   *)
(* thrown the tree is unmounted: no control and no listener is left; the   *)
(* calls and the reads that were started still complete.  The paste and    *)
(* crop modals are overlays that disable nothing beneath them: every       *)
(* rendered control stays operable.                                        *)

Mounted == ~RenderThrows

\* the sides of the crops that are dragged, in tenths of a pixel: a click
\* without a drag, a crop narrower than a pixel, a crop of one pixel
CropSides == {0, 4, 10}
\* ReactCrop has aspect={1}: the crop the user drags is a square
SquareCrops == {PixelCrop(side, side) : side \in CropSides}
OnePixelCrop == PixelCrop(10, 10)

\* a list of MaxPhotos photos gets no more, a queue no more than MaxQueue
Explored(type, n) ==
    CurrentCount(type) < MaxPhotos /\ Len(cropQueue) + n <= MaxQueue

\* at most MaxReads batches of FileReaders are started and not completed
ReadsExplored == BagCardinality(reads) < MaxReads

\* Spec follows the sign-outs that come before the first generation (SpecAuth
\* follows those around the generations) and the crops of one pixel that
\* the browser can draw (SpecPhotos follows the others)
SignOutExplored == nextCall = 1

UserSignsIn == Mounted /\ SignIn
UserSignsOut(ok) == Mounted /\ handleLogout(ok)
\* ApiKeyPrompt is rendered while the key is not set; its form submits the
\* trimmed key when that is not empty
SubmitApiKey(stored) ==
    Mounted /\ currentUser /\ ~isApiKeySet /\ handleApiKeySubmit("key", stored)
ClickGetStarted == Mounted /\ LandingRendered /\ onGetStarted
PasteImages(n, focus) == Mounted /\ ReadsExplored /\ handlePaste(n, focus)
PasteReadSettles(read, ok) == pasteFilesRead(read, ok)
ClickAddPasted(type) ==
    /\ Mounted /\ PasteModalRendered
    /\ CurrentCount(type) < MaxImagesOf(type)     \* the button is not disabled
    /\ Explored(type, Len(pastedImages))
    /\ handleAddPastedImages(type)
ClickCancelPaste == Mounted /\ PasteModalRendered /\ handleCancelPaste
ChooseFiles(type, n) ==
    /\ Mounted /\ UploadViewRendered
    /\ CurrentCount(type) < MaxImagesOf(type)     \* the input is not disabled
    /\ Explored(type, n) /\ ReadsExplored
    /\ handleImageUpload(type, n)
UploadReadSettles(read, ok) == uploadFilesRead(read, ok)
ClickRemoveMain(index) == Mounted /\ UploadViewRendered /\ removeMainImage(index)
ClickRemoveInspiration(index) ==
    Mounted /\ UploadViewRendered /\ removeInspirationImage(index)
\* the end of a drag on the crop dialog (a click without a drag gives a
\* crop of side 0)
DragCrop(crop) ==
    /\ Mounted /\ CropModalRendered
    /\ completedCrop # <<crop>>
    /\ onCropComplete(crop)
ClickCropSave(allocated) ==
    Mounted /\ CropModalRendered /\ handleCropConfirm(allocated)
ClickCropSkip == Mounted /\ CropModalRendered /\ handleCropCancel
MoveSlider(n) == Mounted /\ UploadViewRendered /\ setGenerationCount(n)
ClickGenerate ==
    /\ Mounted /\ UploadViewRendered /\ ~isGenerateButtonDisabled
    /\ nextCall + generationCount - 1 <= MaxCalls
    /\ handleGenerateClick
ClickRegenerate(index) ==
    /\ Mounted /\ RegenerateOffered(index)
    /\ nextCall <= MaxCalls
    /\ handleRegenerateSlot(index)
CallSettles(call, ok) == CallComplete(call, ok)
ClickStartOver == Mounted /\ MainRendered /\ appState = "results-shown" /\ handleReset
\* the button is disabled={isDownloading}
ClickDownloadAlbum ==
    /\ Mounted /\ MainRendered /\ appState = "results-shown"
    /\ ~isDownloading
    /\ handleDownloadAlbum
AlbumImagesLoad(data, ok) == albumImagesLoad(data, ok)

Next ==
    \/ UserSignsIn
    \/ \E ok \in BOOLEAN : SignOutExplored /\ UserSignsOut(ok)
    \/ \E stored \in BOOLEAN : SubmitApiKey(stored)
    \/ ClickGetStarted
    \/ \E n \in 1 .. MaxQueue, focus \in FocusTags : PasteImages(n, focus)
    \/ \E read \in BagToSet(reads), ok \in BOOLEAN : PasteReadSettles(read, ok)
    \/ \E type \in Types : ClickAddPasted(type)
    \/ ClickCancelPaste
    \/ \E type \in Types, n \in 1 .. MaxQueue : ChooseFiles(type, n)
    \/ \E read \in BagToSet(reads), ok \in BOOLEAN : UploadReadSettles(read, ok)
    \/ \E index \in Indices(uploadedImages) : ClickRemoveMain(index)
    \/ \E index \in Indices(inspirationImages) : ClickRemoveInspiration(index)
    \/ DragCrop(OnePixelCrop)
    \/ ClickCropSave(TRUE)
    \/ ClickCropSkip
    \/ \E n \in 1 .. MaxCount : MoveSlider(n)
    \/ ClickGenerate
    \/ \E index \in Indices(generatedImages) : ClickRegenerate(index)
    \/ \E call \in calls, ok \in BOOLEAN : CallSettles(call, ok)
    \/ ClickStartOver
    \/ ClickDownloadAlbum
    \/ \E data \in BagToSet(albumLoads), ok \in BOOLEAN : AlbumImagesLoad(data, ok)

Spec == Init /\ [][Next]_vars

-----------------------------------------------------------------------------
(* SpecHandlers: the operations of the orchestrator called directly, from  *)
(* the state in which one main photo and one vibe photo are uploaded.  A   *)
(* handler needs the mounted tree and no rendered control, so its          *)
(* behaviours include those of Spec as far as the collection and the calls *)
(* go.  The orchestrator reads the photo lists only through length === 0:  *)
(* a photo is uploaded only to refill an empty list.                       *)

\* the state after the crops of one main photo and one vibe photo were
\* saved, with the data URLs main and vibe
PhotosSaved(main, vibe) ==
    /\ currentUser = TRUE
    /\ isApiKeySet = TRUE
    /\ uploadedImages = <<main>>
    /\ inspirationImages = <<vibe>>
    /\ generatedImages = <<>>
    /\ appState = "photos-uploaded"
    /\ generationCount = InitialGenerationCount
    /\ cropQueue = <<>>
    /\ completedCrop = <<>>
    /\ pastedImages = <<>>
    /\ isPasteModalOpen = FALSE
    /\ reads = EmptyBag
    /\ calls = {}
    /\ nextCall = 1
    /\ collection = [phase |-> "none", afterReset |-> FALSE, first |-> 0, count |-> 0]
    /\ AlbumNone

AppUploaded == PhotosSaved(CroppedDataUrl, CroppedDataUrl)

InitUploaded == AppUploaded /\ ServiceIdle

\* the same, where each crop was one with pixels or one without
InitSaved ==
    /\ \E main \in {CroppedDataUrl, EmptyCanvasUrl},
          vibe \in {CroppedDataUrl, EmptyCanvasUrl} : PhotosSaved(main, vibe)
    /\ ServiceIdle

StartGeneration ==
    /\ Mounted
    /\ nextCall + generationCount - 1 <= MaxCalls
    /\ handleGenerateClick
Regenerate(index) ==
    Mounted /\ nextCall <= MaxCalls /\ handleRegenerateSlot(index)
Complete(call, ok) == CallComplete(call, ok)
Reset == Mounted /\ handleReset
SetCount(n) == Mounted /\ setGenerationCount(n)
RemoveMain(index) == Mounted /\ removeMainImage(index)
RemoveInspiration(index) == Mounted /\ removeInspirationImage(index)
Upload(type) ==
    /\ Mounted
    /\ CurrentCount(type) = 0 /\ cropQueue = <<>> /\ reads = EmptyBag
    /\ handleImageUpload(type, 1)
UploadRead(read, ok) == uploadFilesRead(read, ok)
CropDone(crop) ==
    /\ Mounted /\ Len(cropQueue) > 0 /\ completedCrop = <<>>
    /\ onCropComplete(crop)
CropSave(allocated) == Mounted /\ handleCropConfirm(allocated)

NextHandlers ==
    \/ StartGeneration
    \/ \E index \in Indices(generatedImages) : Regenerate(index)
    \/ \E call \in calls, ok \in BOOLEAN : Complete(call, ok)
    \/ Reset
    \/ \E n \in 1 .. MaxCount : SetCount(n)
    \/ \E index \in Indices(uploadedImages) : RemoveMain(index)
    \/ \E index \in Indices(inspirationImages) : RemoveInspiration(index)
    \/ \E type \in Types : Upload(type)
    \/ \E read \in BagToSet(reads), ok \in BOOLEAN : UploadRead(read, ok)
    \/ CropDone(OnePixelCrop)
    \/ CropSave(TRUE)

SpecHandlers == InitUploaded /\ [][NextHandlers]_vars

\* SpecRegenerate: the life of one collection, from its startGeneration
\* on: its slots are regenerated and its calls settle in every order,
\* while photos are removed and chosen again.  No reset and no second
\* startGeneration happens, so every call in flight is one of this
\* collection.
StartOnce == nextCall = 1 /\ StartGeneration

NextRegenerate ==
    \/ \E n \in 1 .. MaxCount : SetCount(n)
    \/ StartOnce
    \/ \E index \in Indices(generatedImages) : Regenerate(index)
    \/ \E call \in calls, ok \in BOOLEAN : Complete(call, ok)
    \/ \E index \in Indices(uploadedImages) : RemoveMain(index)
    \/ \E index \in Indices(inspirationImages) : RemoveInspiration(index)
    \/ \E type \in Types : Upload(type)
    \/ \E read \in BagToSet(reads), ok \in BOOLEAN : UploadRead(read, ok)
    \/ CropDone(OnePixelCrop)
    \/ CropSave(TRUE)

SpecRegenerate == InitUploaded /\ [][NextRegenerate]_vars

\* SpecOverlap: handleGenerateClick runs again while calls of an earlier
\* batch are in flight, with a count of its own; every call in flight
\* eventually settles
GenerateAgain ==
    /\ Mounted
    /\ nextCall + generationCount - 1 <= MaxOverlapCalls
    /\ handleGenerateClick

NextOverlap ==
    \/ \E n \in 1 .. MaxOverlapCount : SetCount(n)
    \/ GenerateAgain
    \/ \E call \in calls, ok \in BOOLEAN : Complete(call, ok)

SpecOverlap ==
    /\ InitUploaded /\ [][NextOverlap]_vars
    /\ \A id \in 1 .. MaxOverlapCalls :
           WF_vars(\E call \in calls, ok \in BOOLEAN :
                       call.id = id /\ Complete(call, ok))

-----------------------------------------------------------------------------
(* SpecBatch: one batch for each value of the count slider (min 1, max 8), *)
(* its calls settling in every order, for photos dataUrlToGeminiPart takes *)
(* and for photos it does not take.                                        *)

FirstGenerate ==
    /\ nextCall = 1
    /\ Mounted /\ UploadViewRendered /\ ~isGenerateButtonDisabled
    /\ handleGenerateClick

NextBatch ==
    \/ \E n \in SliderMin .. SliderMax : MoveSlider(n)
    \/ FirstGenerate
    \/ \E call \in calls, ok \in BOOLEAN : CallSettles(call, ok)

SpecBatch == InitSaved /\ [][NextBatch]_vars

\* SpecAlbum: one batch for each value of the slider, regenerates of its
\* slots, and the album download of whatever the collection holds
NextAlbum ==
    \/ \E n \in SliderMin .. SliderMax : MoveSlider(n)
    \/ FirstGenerate
    \/ \E call \in calls, ok \in BOOLEAN : CallSettles(call, ok)
    \/ \E index \in Indices(generatedImages) : ClickRegenerate(index)
    \/ ClickDownloadAlbum
    \/ \E data \in BagToSet(albumLoads), ok \in BOOLEAN : AlbumImagesLoad(data, ok)

SpecAlbum == InitUploaded /\ [][NextAlbum]_vars

-----------------------------------------------------------------------------
(* SpecAuth: the user signs in and out while images are pasted and         *)
(* collections are generated, through what is rendered.                    *)

NextAuth ==
    \/ UserSignsIn
    \/ \E ok \in BOOLEAN : UserSignsOut(ok)
    \/ \E n \in 1 .. MaxQueue, focus \in FocusTags : PasteImages(n, focus)
    \/ \E read \in BagToSet(reads), ok \in BOOLEAN : PasteReadSettles(read, ok)
    \/ ClickCancelPaste
    \/ \E n \in 1 .. MaxCount : MoveSlider(n)
    \/ ClickGenerate
    \/ \E index \in Indices(generatedImages) : ClickRegenerate(index)
    \/ \E call \in calls, ok \in BOOLEAN : CallSettles(call, ok)
    \/ ClickStartOver
    \/ ClickGetStarted

SpecAuth == InitUploaded /\ [][NextAuth]_vars

-----------------------------------------------------------------------------
(* SpecPhotos: photos are pasted, chosen, cropped and removed, from any    *)
(* pair of photo lists within the two maxima; the crop queue holds up to   *)
(* MaxBacklog images, and at most one photo of the lists comes from a      *)
(* canvas without pixels.                                                  *)

PhotoList(n) == [k \in 1 .. n |-> CroppedDataUrl]

InitPhotos ==
    /\ currentUser = TRUE
    /\ isApiKeySet = TRUE
    /\ uploadedImages \in {PhotoList(n) : n \in 0 .. MAX_MAIN_IMAGES}
    /\ inspirationImages \in {PhotoList(n) : n \in 0 .. MAX_INSPIRATION_IMAGES}
    /\ generatedImages = <<>>
    /\ appState = "photos-uploaded"
    /\ generationCount = InitialGenerationCount
    /\ cropQueue = <<>>
    /\ completedCrop = <<>>
    /\ pastedImages = <<>>
    /\ isPasteModalOpen = FALSE
    /\ reads = EmptyBag
    /\ calls = {}
    /\ nextCall = 1
    /\ collection = [phase |-> "none", afterReset |-> FALSE, first |-> 0, count |-> 0]
    /\ AlbumNone
    /\ ServiceIdle

AddPasted(type) ==
    /\ Mounted /\ PasteModalRendered
    /\ CurrentCount(type) < MaxImagesOf(type)     \* the button is not disabled
    /\ Len(cropQueue) + Len(pastedImages) <= MaxBacklog
    /\ handleAddPastedImages(type)
FilesChosen(type, n) ==
    /\ Mounted /\ UploadViewRendered
    /\ CurrentCount(type) < MaxImagesOf(type)     \* the input is not disabled
    /\ Len(cropQueue) + n <= MaxBacklog /\ ReadsExplored
    /\ handleImageUpload(type, n)

\* no photo of the two lists is the data URL of a canvas without pixels
NoEmptyPhoto ==
    /\ \A k \in 1 .. Len(uploadedImages) : uploadedImages[k] # EmptyCanvasUrl
    /\ \A k \in 1 .. Len(inspirationImages) : inspirationImages[k] # EmptyCanvasUrl

CropSaved(allocated) ==
    /\ completedCrop # <<>>
    /\ toDataURL(canvasPreview(completedCrop[1]), allocated) = EmptyCanvasUrl
           => NoEmptyPhoto
    /\ ClickCropSave(allocated)

NextPhotos ==
    \/ \E n \in 1 .. MaxQueue, focus \in FocusTags : PasteImages(n, focus)
    \/ \E read \in BagToSet(reads), ok \in BOOLEAN : PasteReadSettles(read, ok)
    \/ \E type \in Types : AddPasted(type)
    \/ ClickCancelPaste
    \/ \E type \in Types, n \in 1 .. MaxQueue : FilesChosen(type, n)
    \/ \E read \in BagToSet(reads), ok \in BOOLEAN : UploadReadSettles(read, ok)
    \/ \E index \in Indices(uploadedImages) : ClickRemoveMain(index)
    \/ \E index \in Indices(inspirationImages) : ClickRemoveInspiration(index)
    \/ \E crop \in SquareCrops : DragCrop(crop)
    \/ \E allocated \in BOOLEAN : CropSaved(allocated)
    \/ ClickCropSkip

SpecPhotos == InitPhotos /\ [][NextPhotos]_vars

-----------------------------------------------------------------------------
(* SpecService: generateVibeBasedImage called once, with every choice of   *)
(* assets, upstream failures and upstream responses below.                 *)

PngUrl == <<"data:", "image/", Png, ";base64,", <<"c", "G", "8">>>>
JpegUrl == <<"data:", "image/", Jpeg, ";base64,", <<"a", "Q", "=">>>>
\* a subtype of capitals, a digit and an underscore; an empty payload
WordUrl == <<"data:", "image/", <<"X", "_", "1">>, ";base64,", <<>>>>
WellFormedUrls == {PngUrl, JpegUrl, WordUrl}
MalformedUrls ==
    { <<"data:", "text/", <<"p", "l", "a", "i", "n">>, ";base64,", <<"a", "G", "8">>>>,
      <<"data:", "image/", <<"s", "v", "g", "+", "x", "m", "l">>, ";base64,", <<"P", "H">>>>,
      <<"data:", "image/", <<>>, ";base64,", <<"c", "G", "8">>>>,
      <<"data:", "image/", Png, ";base64,", <<"a", "b", "\n", "c", "d">>>>,
      <<"data:", "image/", Png, ";base64,", <<"a", "b", "\r">>>>,
      <<"data:", "image/", Jpeg, ";base64,", <<LineSeparator, "a", "b">>>>,
      <<"data:", "image/", Jpeg, ";base64,", <<"a", ParagraphSeparator, "b">>>>,
      <<"data:", "image/", Png, ",", <<"r", "a", "w">>>>,
      EmptyCanvasUrl,
      <<"blob:", "https://host/1">> }
AssetUrls == WellFormedUrls \cup MalformedUrls

TransientErrors ==
    { <<"{\"error\":{", "\"code\":500", ",\"status\":\"", "INTERNAL", "\"}}">>,
      <<"got status: ", "503", " Service Unavailable">> }
PermanentErrors ==
    { <<"{\"error\":{", "\"code\":400", ",\"status\":\"", "INVALID_ARGUMENT", "\"}}">>,
      <<"API key not valid. Please pass a valid API key.">>,
      <<"Request blocked by the content policy">> }
UpstreamErrors == TransientErrors \cup PermanentErrors

Out1 == <<"b", "3", "V">>
Out2 == <<"M", "g">>
ImageResponses ==
    { <<ImagePart(<<"image/", Png>>, Out1)>>,
      <<TextPart(<<"Here is your image.">>), ImagePart(<<"image/", Png>>, Out1)>>,
      <<ImagePart(<<"image/", Jpeg>>, Out2), ImagePart(<<"image/", Png>>, Out1)>> }
TextOnlyResponses ==
    { <<>>,
      <<TextPart(<<"I cannot help with that.">>)>>,
      <<TextPart(<<"503">>), TextPart(<<" INTERNAL">>)>>,
      <<TextPart(<<"INTERNAL">>)>> }
\* an upstream that sends one image part of the request back
EchoResponses ==
    {<<allParts[k]>> : k \in {j \in 1 .. Len(allParts) : HasInlineData(allParts[j])}}
UpstreamResponses == ImageResponses \cup TextOnlyResponses

AssetLists(longest) ==
    UNION {[1 .. n -> AssetUrls] : n \in 1 .. longest}

InitService ==
    /\ AppUploaded
    /\ mainImageDataUrls \in AssetLists(MaxAssets)
    /\ inspirationDataUrls \in AssetLists(MaxStyles)
    /\ pc = "start"
    /\ attempt = 0
    /\ allParts = <<>>
    /\ log = <<>>
    /\ outcome = <<>>

NextService ==
    \/ GenerateStart
    \/ \E errorMessage \in UpstreamErrors : UpstreamFails(errorMessage)
    \/ DelayElapses
    \/ \E response \in UpstreamResponses \cup EchoResponses :
           UpstreamReturns(response)

SpecService == InitService /\ [][NextService]_vars

-----------------------------------------------------------------------------
(* Properties of the slot collection *)

Terminal == {"done", "error"}

NoSlotPending ==
    \A index \in Indices(generatedImages) :
        generatedImages[index + 1].status \in Terminal

\* C1: when the Promise.all of handleGenerateClick resolves (the step that
\* settles the last call of a batch and sets 'results-shown'), every slot
\* of the collection is done or error and none is pending.
C1_AwaitAllLeavesNoPending ==
    [][\A call \in calls, ok \in BOOLEAN :
          (CallSettles(call, ok) /\ BatchSettles(call)) => NoSlotPending']_vars

\* C2: no two calls in flight target the same slot index.
C2_OneWriterPerIndex ==
    \A c, d \in calls : c # d => c.index # d.index

\* C4: in a collection created by a startGeneration that follows a reset,
\* every slot is pending or holds the result of a call launched by that
\* startGeneration or after it.
C4_NoResultFromBeforeReset ==
    (collection.phase = "active" /\ collection.afterReset) =>
        \A index \in Indices(generatedImages) :
            \/ generatedImages[index + 1] = Pending
            \/ /\ generatedImages[index + 1].status \in Terminal
               /\ generatedImages[index + 1].result >= collection.first

\* C5: after a reset the collection stays empty until the next
\* startGeneration, also when calls launched before the reset settle.
C5_EmptyAfterReset ==
    collection.phase = "discarded" => generatedImages = <<>>

\* C8: from a startGeneration(count) until the next reset or
\* startGeneration the collection has exactly count entries.
C8_LengthFixed ==
    collection.phase = "active" => Len(generatedImages) = collection.count

\* C9: while a collection lives, a slot changes only from pending to done
\* or error, or from done or error to pending by a regenerate of that slot.
C9_SlotTransitions ==
    [][(collection' = collection /\ collection.phase = "active") =>
          \A index \in Indices(generatedImages) :
              LET old == Slot(generatedImages, index)
                  new == Slot(generatedImages', index)
              IN  (old # new /\ old.status \in Terminal \cup {"pending"}) =>
                      \/ old = Pending /\ new.status \in Terminal
                      \/ /\ old.status \in Terminal
                         /\ new = Pending
                         /\ handleRegenerateSlot(index)]_vars

-----------------------------------------------------------------------------
(* Properties of the handlers *)

InputsPresent == Len(uploadedImages) > 0 /\ Len(inspirationImages) > 0

\* every slot but index reads the same before and after the step
OtherSlotsKept(index) ==
    \A j \in (Indices(generatedImages) \cup Indices(generatedImages')) \ {index} :
        Slot(generatedImages', j) = Slot(generatedImages, j)

\* C3: a regenerate of a pending slot is rejected: handleRegenerateSlot can
\* take no step, so the collection is unchanged and no call is issued.
C3_RegeneratePendingRejected ==
    \A index \in Indices(generatedImages) :
        generatedImages[index + 1] = Pending =>
            ~ENABLED handleRegenerateSlot(index)

\* a slot is pending while photos are present, so that the pending check
\* is the only early return that can reject; another slot is done
C3_Witness ==
    /\ InputsPresent
    /\ \E index \in Indices(generatedImages) : generatedImages[index + 1].status = "done"
    /\ \E index \in Indices(generatedImages) : generatedImages[index + 1] = Pending

\* C6: each call of a batch writes its result to its own slot index when it
\* settles and never again (it leaves the calls in flight and identities
\* are never reused); a slot acquires a result only from the call that
\* settles in that step and targets it; the write keeps every other slot.
C6_BatchCallWritesOwnSlotOnce ==
    [][/\ \A call \in calls, ok \in BOOLEAN :
             (CallComplete(call, ok) /\ call.batch # 0) =>
                 /\ Slot(generatedImages', call.index) = Result(call, ok)
                 /\ OtherSlotsKept(call.index)
                 /\ \A later \in calls' : later.id # call.id
       /\ \A index \in Indices(generatedImages') :
             LET new == Slot(generatedImages', index)
             IN  (new.status \in Terminal /\ new # Slot(generatedImages, index)) =>
                     \E call \in calls \ calls' :
                         call.index = index /\ call.id = new.result
       /\ \A call \in calls' \ calls : call.id >= nextCall]_vars

C10_StartGenerationAllPending ==
    [][handleGenerateClick =>
          /\ generationCount \in SliderMin .. SliderMax
          /\ Len(generatedImages') = generationCount
          /\ \A k \in 1 .. Len(generatedImages') : generatedImages'[k] = Pending
          /\ Cardinality(calls' \ calls) = generationCount]_vars

\* the largest batch, just started
C10_Witness ==
    /\ generationCount = SliderMax
    /\ Len(generatedImages) = SliderMax
    /\ \A k \in 1 .. SliderMax : generatedImages[k] = Pending
    /\ Cardinality(calls) = SliderMax

-----------------------------------------------------------------------------
(* Properties of one generate call (SpecService) *)

Settled == pc \in {"resolved", "rejected"}

AllTransient(failures) ==
    \A k \in 1 .. Len(failures) : failures[k].message \in TransientErrors

LastEntry == log[Len(log)]

\* C11: one generate call issues at most 3 upstream attempts; as soon as
\* three attempts in a row have failed transiently the call is rejected,
\* with exactly 3 attempts made and no delay or attempt after the third.
C11_AtMostThreeAttempts ==
    /\ Attempts <= 3
    /\ (Len(Failures) = 3 /\ AllTransient(Failures)) =>
           /\ pc = "rejected"
           /\ Attempts = 3
           /\ LastEntry.kind = "failure"

\* three transient failures in a row
C11_Witness ==
    /\ Len(Failures) = 3 /\ AllTransient(Failures)
    /\ pc = "rejected"

\* C12: a failure that is not transient (auth, malformed request, content
\* policy) is the last thing the call does: it is rejected at once, with no
\* attempt and no delay after it, so a permanent first failure means exactly
\* 1 attempt; every failure that was followed by a retry is transient.
C12_PermanentFailureNotRetried ==
    \A k \in 1 .. Len(log) :
        (log[k].kind = "failure" /\ log[k].message \in PermanentErrors) =>
            /\ k = Len(log)
            /\ pc = "rejected"
            /\ Attempts = log[k].n
            /\ Len(Delays) = log[k].n - 1
            /\ (log[k].n = 1 => (Attempts = 1 /\ Delays = <<>>))

\* the first attempt fails for good
C12_Witness ==
    /\ pc = "rejected"
    /\ Len(Failures) = 1
    /\ Failures[1].message \in PermanentErrors

\* C13: the delays are 1000 ms then 2000 ms; a delay comes right after a
\* failure and right before the next attempt, and every attempt but the
\* first comes right after a delay, so no delay follows the final attempt;
\* two transient failures and then an image make exactly 3 attempts with
\* the delays 1000 and 2000, and the call resolves.
C13_BackoffBeforeRetriesOnly ==
    /\ Delays \in {<<>>, <<1000>>, <<1000, 2000>>}
    /\ \A k \in 1 .. Len(log) :
           /\ log[k].kind = "delay" =>
                  /\ k > 1 /\ log[k - 1].kind = "failure"
                  /\ IF k = Len(log) THEN pc = "delaying"
                                      ELSE log[k + 1].kind = "attempt"
           /\ (log[k].kind = "attempt" /\ log[k].n > 1) =>
                  k > 1 /\ log[k - 1].kind = "delay"
    /\ Settled => Len(Delays) = (IF Attempts = 0 THEN 0 ELSE Attempts - 1)
    /\ (Len(Failures) = 2 /\ pc = "resolved") =>
           (Attempts = 3 /\ Delays = <<1000, 2000>>)

\* two transient failures, then an image
C13_Witness ==
    /\ pc = "resolved"
    /\ Len(Failures) = 2
    /\ Attempts = 3

NoImagePart(response) ==
    \A k \in 1 .. Len(response) : ~HasInlineData(response[k])

\* C14: when the upstream call returns a response without an image part,
\* whatever its text, the call is rejected in that step, and a settled
\* call takes no further step: no retry, no delay, no other upstream call.
C14_TextResponseFailsWithoutRetry ==
    [][/\ \A response \in UpstreamResponses :
             (UpstreamReturns(response) /\ NoImagePart(response)) =>
                 /\ pc' = "rejected"
                 /\ Attempts' = Attempts
                 /\ Delays' = Delays
       /\ Settled => UNCHANGED serviceVars]_vars

\* rejected on a response whose text reads like a transient fault
C14_Witness ==
    /\ pc = "rejected"
    /\ Len(log) > 0
    /\ LastEntry.kind = "response"
    /\ isRetriableError(LastEntry.message)

\* C15: when the call is rejected because the response has no image part
\* and the response has text, the message of the rejection contains every
\* fragment of that text.
C15_ErrorCarriesResponseText ==
    (pc = "rejected" /\ Len(log) > 0 /\ LastEntry.kind = "response") =>
        \A k \in 1 .. Len(LastEntry.message) :
            Includes(outcome, LastEntry.message[k])

\* C16: when three attempts have failed transiently, the message the call
\* is rejected with is the wrapper followed by the message of the third
\* failure.
C16_WrapsLastTransientFailure ==
    (pc = "rejected" /\ Len(Failures) = 3 /\ AllTransient(Failures)) =>
        /\ Len(outcome) > 1
        /\ SubSeq(outcome, 2, Len(outcome)) = Failures[3].message

\* the third failure has another message than the first two
C16_Witness ==
    /\ pc = "rejected"
    /\ Len(Failures) = 3 /\ AllTransient(Failures)
    /\ Failures[3].message # Failures[1].message
    /\ Failures[3].message # Failures[2].message

SomeMalformed(dataUrls) ==
    \E k \in 1 .. Len(dataUrls) : dataUrls[k] \in MalformedUrls

\* C17: the malformed assets are those the format does not match: another
\* media type, a subtype that is no word, a payload with one of the four
\* line terminators, a missing ';base64,', no data URL.  When a main or
\* vibe asset is malformed, the first step of the call rejects it with the
\* message of the encoding error inside the rejection; no upstream attempt
\* is made, no payload built and no delay taken.
C17_MalformedAssetFailsBeforeUpstream ==
    /\ \A dataUrl \in AssetUrls :
           (dataUrl \in MalformedUrls) = ~DataUrlMatch(dataUrl)
    /\ ((SomeMalformed(mainImageDataUrls) \/ SomeMalformed(inspirationDataUrls))
         /\ pc # "start") =>
        /\ pc = "rejected"
        /\ log = <<>>
        /\ allParts = <<>>
        /\ attempt = 0
        /\ \A k \in 1 .. Len(InvalidDataUrlMessage) :
               Includes(outcome, InvalidDataUrlMessage[k])

\* well-formed main assets, a vibe asset whose media type is not an image
C17_Witness ==
    /\ pc = "rejected"
    /\ ~SomeMalformed(mainImageDataUrls)
    /\ Len(mainImageDataUrls) = 2
    /\ inspirationDataUrls[1][2] = "text/"

-----------------------------------------------------------------------------
(* Properties of failures in the orchestrator *)

\* C18: when the call of slot i fails, its continuation runs (nothing is
\* thrown past the handler), writes an error slot with the message of that
\* call at index i, keeps every other slot as it reads, leaves every other
\* call in flight, and still resolves the Promise.all of its batch when it
\* is the last call of the batch.
C18_FailureStaysInItsSlot ==
    [][\A call \in calls :
          /\ ENABLED Complete(call, FALSE)
          /\ Complete(call, FALSE) =>
                 /\ Slot(generatedImages', call.index) = Error(call.id)
                 /\ OtherSlotsKept(call.index)
                 /\ calls' = calls \ {call}
                 /\ BatchSettles(call) => appState' = "results-shown"]_vars

BatchInFlight(batch) == \E call \in calls : call.batch = batch

\* C19: when every call eventually settles, every batch launched by
\* handleGenerateClick is eventually resolved: a state follows in which none
\* of its calls is in flight and appState is 'results-shown', whatever mix
\* of done and error the calls gave.
C19_BatchEventuallyResolves ==
    \A batch \in 1 .. MaxOverlapCalls :
        BatchInFlight(batch) ~>
            (~BatchInFlight(batch) /\ appState = "results-shown")

\* C20: wherever the results are drawn, a slot in error has the control
\* that triggers its regenerate.
C20_ErrorSlotOffersRegenerate ==
    \A index \in Indices(generatedImages) :
        (Mounted /\ ResultsRendered /\ generatedImages[index + 1].status = "error") =>
            RegenerateOffered(index)

-----------------------------------------------------------------------------
(* Properties of the batch launch and of the album *)

\* C21: every pending slot of a batch has its call in flight: all count
\* calls are launched by the step of handleGenerateClick, none waits for
\* another to complete, and any of them may be the next to settle (with
\* a result when dataUrlToGeminiPart takes the photos it was given, with a
\* failure in any case); slots are pending with no call completed.
C21_AllCallsInFlightTogether ==
    /\ \A index \in Indices(generatedImages) :
           generatedImages[index + 1] = Pending =>
               \E call \in calls :
                   call.index = index /\ call.batch = collection.first
    /\ \A call \in calls :
           /\ ENABLED CallSettles(call, FALSE)
           /\ call.accepted => ENABLED CallSettles(call, TRUE)

\* eight calls in flight together, every slot pending, none completed
C21_Witness ==
    /\ collection.count = SliderMax
    /\ Cardinality(calls) = SliderMax
    /\ \A k \in 1 .. SliderMax :
           /\ generatedImages[k] = Pending
           /\ \E call \in calls : call.index = k - 1

\* C23: the step of handleDownloadAlbum builds a mapping with exactly one
\* entry 'Result i+1' -> url for each done slot i, in slot order, and none
\* for a pending or error slot; createAlbumPage is called with that
\* mapping when it has an entry and is not called when it has none; the
\* page that is drawn when the images have loaded has the entries of the
\* mapping createAlbumPage was called with.
C23_AlbumGetsDoneSlotsOnly ==
    [][/\ handleDownloadAlbum =>
          /\ \A index \in Indices(generatedImages) :
                 LET entries == {k \in 1 .. Len(imageData') :
                                    imageData'[k].style = <<"Result ", index + 1>>}
                 IN  IF generatedImages[index + 1].status = "done"
                     THEN /\ Cardinality(entries) = 1
                          /\ \A k \in entries :
                                 imageData'[k].url = generatedImages[index + 1].result
                     ELSE entries = {}
          /\ \A k \in 1 .. Len(imageData') :
                 \E index \in Indices(generatedImages) :
                     imageData'[k].style = <<"Result ", index + 1>>
          /\ IF Len(imageData') = 0
             THEN albumPage' = albumPage /\ albumLoads' = albumLoads
             ELSE /\ albumPage'.called
                  /\ albumLoads' = albumLoads (+) SetToBag({imageData'})
       /\ \A data \in BagToSet(albumLoads) :
             albumImagesLoad(data, TRUE) =>
                 /\ Len(data) > 0
                 /\ Len(albumPage'.cells) = Len(data)
                 /\ \A k \in 1 .. Len(data) :
                        /\ albumPage'.cells[k].style = data[k].style
                        /\ albumPage'.cells[k].img = data[k].url]_vars

\* an album of one image, drawn from a collection of a done slot and a
\* slot that is in error or pending
C23_Witness ==
    /\ albumPage.called
    /\ Len(albumPage.cells) = 1
    /\ Len(generatedImages) = 2
    /\ generatedImages[1].status \in {"error", "pending"}
    /\ generatedImages[2].status = "done"
    /\ albumPage.cells[1].style = <<"Result ", 2>>

\* C30: every image createAlbumPage draws lies in a row of the grid.
C30_AlbumImagesInsideGrid ==
    \A k \in 1 .. Len(albumPage.cells) :
        /\ albumPage.cells[k].row < GridRows
        /\ albumPage.cells[k].col < GridCols

\* C22: a generate call is launched only from a state with at least one
\* main photo and one vibe photo; without them handleGenerateClick and
\* handleRegenerateSlot can take no step: no slot changes, no call starts.
C22_NoCallWithoutInputs ==
    [][/\ (calls' \ calls # {}) => InputsPresent
       /\ ~InputsPresent =>
              /\ ~ENABLED handleGenerateClick
              /\ \A index \in Indices(generatedImages) :
                     ~ENABLED handleRegenerateSlot(index)]_vars

\* only the vibe photos are missing while a slot is done or in error, the
\* state in which a regenerate of that slot would otherwise be accepted
C22_Witness ==
    /\ Len(uploadedImages) > 0 /\ Len(inspirationImages) = 0
    /\ appState = "results-shown"
    /\ \E index \in Indices(generatedImages) :
           generatedImages[index + 1].status \in Terminal

-----------------------------------------------------------------------------
(* Properties of the payload and of the response extraction (SpecService) *)

EncodedAsset(dataUrl) == ImagePart(SubSeq(dataUrl, 2, 3), dataUrl[5])

C25_EncodeDecodeRoundTrip ==
    [][\A k \in 1 .. (Len(allParts) - 1) :
          UpstreamReturns(<<allParts[k]>>) =>
              /\ pc' = "resolved"
              /\ outcome' = (mainImageDataUrls \o inspirationDataUrls)[k]]_vars

\* the call resolved with the png vibe asset it was given, after a jpeg
\* main asset
C25_Witness ==
    /\ pc = "resolved"
    /\ mainImageDataUrls = <<JpegUrl>>
    /\ inspirationDataUrls = <<PngUrl>>
    /\ outcome = PngUrl

ImagePositions(response) ==
    {k \in 1 .. Len(response) : HasInlineData(response[k])}

\* C26: when the response has a part with inline data, the call resolves
\* with the data URL of the first such part; it is rejected on a response
\* only when the response has no such part.
C26_FirstImagePartReturned ==
    [][\A response \in UpstreamResponses :
          UpstreamReturns(response) =>
              IF ImagePositions(response) # {}
              THEN LET first == CHOOSE k \in ImagePositions(response) :
                                    \A j \in ImagePositions(response) : k <= j
                   IN  /\ pc' = "resolved"
                       /\ outcome' = <<"data:">>
                              \o response[first].inlineData.mimeType
                              \o <<";base64,", response[first].inlineData.data>>
              ELSE pc' = "rejected"]_vars

\* resolved with the first of two image parts
C26_Witness ==
    /\ pc = "resolved"
    /\ outcome = <<"data:", "image/", Jpeg, ";base64,", Out2>>

-----------------------------------------------------------------------------
(* Properties of the sign-in gate, of appState and of the photo maxima *)

\* C27: a generate call is started, by handleGenerateClick or by
\* handleRegenerateSlot, only while a user is signed in.
C27_NoCallWhileSignedOut ==
    [][(calls' \ calls # {}) => currentUser]_vars

\* signed out with both photo lists filled, a done slot and a call still
\* in flight: the handlers would accept a generate or a regenerate
C27_Witness ==
    /\ ~currentUser
    /\ isApiKeySet
    /\ Len(uploadedImages) > 0 /\ Len(inspirationImages) > 0
    /\ calls # {}
    /\ \E index \in Indices(generatedImages) :
           generatedImages[index + 1].status = "done"

\* C28: while appState is 'generating' its only change is to
\* 'results-shown'; handleGenerateClick never runs while a call of an
\* earlier batch is in flight.
C28_GeneratingEndsInResultsOnly ==
    [][/\ (appState = "generating" /\ appState' # appState) =>
              appState' = "results-shown"
       /\ handleGenerateClick => calls = {}]_vars

\* C29: the main photos are at most MAX_MAIN_IMAGES and the vibe photos at
\* most MAX_INSPIRATION_IMAGES in every reachable state.
C29_PhotoListsWithinMaxima ==
    /\ Len(uploadedImages) <= MAX_MAIN_IMAGES
    /\ Len(inspirationImages) <= MAX_INSPIRATION_IMAGES
====
